---------------------------- MODULE Spec2Model ----------------------------
(***************************************************************************)
(* Validation of a wind energy software metadata document.                 *)
(*                                                                         *)
(* src/metadata_model.py declares three pydantic models (Author,           *)
(* Distribution, WindEnergySoftwareMetadataDocument) and nothing else: the *)
(* behaviour of the program is what pdt.BaseModel does with those field    *)
(* declarations (pydantic 2: `X | None` is a builtin union, `list[Author]` *)
(* a builtin generic).  The module models a caller that                    *)
(*   - validates an input mapping of JSON-like values                      *)
(*     (WindEnergySoftwareMetadataDocument.model_validate(raw)), then the  *)
(*     same mapping with one more key set, deleted or appended to, ...;    *)
(*   - assigns attributes of the record it got;                            *)
(*   - dumps the record (model_dump) and validates the dumped mapping.     *)
(*                                                                         *)
(* Values.  A raw value is a record [kind, s, items]:                      *)
(*   kind = "str"   s is the text; for the date field the text is given    *)
(*                  by its characters in items (s is "")                   *)
(*   kind = "null"  None                                                   *)
(*   kind = "int"   an integer (its value never matters: no field of the   *)
(*                  schema is numeric)                                     *)
(*   kind = "list"  items is the sequence of elements                      *)
(*   kind = "date"  a datetime.date, items = <<year, month, day>>          *)
(* An element of authors / distributions is a record [kind, m]: kind =     *)
(* "dict" with m the mapping of its keys, or another kind (m empty).       *)
(* A constructed model instance is [kind |-> <class name>, m |-> fields].  *)
(***************************************************************************)
EXTENDS Integers, Sequences, FiniteSets, TLC

VARIABLES
    raw,        \* the input mapping handed to validation (key -> raw value)
    edits,      \* number of changes made so far, to the input or to the record
    cursor,     \* position (in key order) of the last key of the input changed
    pc,         \* "input" | "validated" | "assigned" | "dumped" | "revalidated"
    result,     \* outcome of model_validate(raw): [ok, val, errors]
    doc,        \* the live record object built by validation
    dumped,     \* model_dump(doc, mode)
    mode,       \* "python" | "json" | "none"
    result2     \* outcome of model_validate(dumped)

vars == <<raw, edits, cursor, pc, result, doc, dumped, mode, result2>>

\* Bound of the exploration: changes made in one run.
MaxEdits == 2

-----------------------------------------------------------------------------
(* Raw values *)

Str(t) == [kind |-> "str", s |-> t, items |-> <<>>]
Null == [kind |-> "null", s |-> "", items |-> <<>>]
IntVal == [kind |-> "int", s |-> "", items |-> <<>>]
Chars(cs) == [kind |-> "str", s |-> "", items |-> cs]
List(xs) == [kind |-> "list", s |-> "", items |-> xs]
DateVal(y, m, d) == [kind |-> "date", s |-> "", items |-> <<y, m, d>>]

NoKeys == [k \in {} |-> Null]
Dict(m) == [kind |-> "dict", m |-> m]
NotADict(k) == [kind |-> k, m |-> NoKeys]
Invalid == [kind |-> "invalid", m |-> NoKeys]

-----------------------------------------------------------------------------
(* The schema: src/metadata_model.py *)

Author == "Author"
Distribution == "Distribution"
WindEnergySoftwareMetadataDocument == "WindEnergySoftwareMetadataDocument"

\* Field names in declaration order.
FieldOrder ==
    [model \in {Author, Distribution, WindEnergySoftwareMetadataDocument} |->
     CASE model = Author -> <<"name", "orcid", "affiliation">>
      [] model = Distribution -> <<"distribution_platform", "url">>
      [] model = WindEnergySoftwareMetadataDocument ->
            << "id", "name", "description", "latest_release_version",
               "latest_release_date", "license", "source_access_right",
               "authors", "programming_languages", "supported_platforms",
               "resource_type", "resource_subtype", "repository_url",
               "documentation_url", "distributions", "function",
               "time_domain", "representation_level",
               "turbine_representation", "location",
               "input_description", "output_description" >>]

ModelFields(model) == FieldOrder[model]

FieldSet(model) == {ModelFields(model)[i] : i \in 1..Len(ModelFields(model))}

\* A field annotation: type is "str" | "date" | "literal" | "list";
\* allowed is the Literal's value set; nullable is `| None`; item is the
\* element type of a list ("str" or a model name); hasDefault / default is
\* the `= value` of the declaration.
Annotation(type, allowed, nullable, item, hasDefault, default) ==
    [type |-> type, allowed |-> allowed, nullable |-> nullable, item |-> item,
     hasDefault |-> hasDefault, default |-> default]

StrField == Annotation("str", {}, FALSE, "", FALSE, Null)
DateField == Annotation("date", {}, FALSE, "", FALSE, Null)
LiteralField(allowed) == Annotation("literal", allowed, FALSE, "", FALSE, Null)
\* (a variant: the declaration written `... | None = None`)
OptionalLiteralDefaulted(allowed) == Annotation("literal", allowed, TRUE, "", TRUE, Null)
OptionalLiteralField(allowed) == Annotation("literal", allowed, TRUE, "", FALSE, Null)
ListField(item) == Annotation("list", {}, FALSE, item, FALSE, Null)
\* (a variant: the declaration written `resource_type: str = "software"`)
ResourceTypeAnyText == Annotation("str", {}, FALSE, "", TRUE, Str("software"))
ResourceTypeField == Annotation("literal", {"software"}, FALSE, "", TRUE, Str("software"))

Declared(model, f) ==
    IF model = WindEnergySoftwareMetadataDocument
    THEN CASE f = "latest_release_date" -> DateField
           [] f = "source_access_right" -> LiteralField({"open", "closed"})
           [] f = "authors" -> ListField(Author)
           [] f = "programming_languages" -> ListField("str")
           [] f = "supported_platforms" -> ListField("str")
           [] f = "resource_type" -> ResourceTypeField
           [] f = "resource_subtype" ->
                 LiteralField({"model", "analysis", "optimisation"})
           [] f = "distributions" -> ListField(Distribution)
           [] f = "time_domain" -> LiteralField({"steady", "dynamic"})
           [] f = "representation_level" -> LiteralField({"wind_farm", "turbine"})
           [] f = "turbine_representation" ->
                 OptionalLiteralField({"actuator", "bem", "vortex_method",
                                       "geometry_resolved"})
           [] f = "location" -> OptionalLiteralField({"onshore", "offshore"})
           [] OTHER -> StrField
    ELSE StrField

Models == {Author, Distribution, WindEnergySoftwareMetadataDocument}

\* The annotation of every field of every model.
SchemaTable == [model \in Models |-> [f \in FieldSet(model) |-> Declared(model, f)]]

Schema(model, f) == SchemaTable[model][f]

-----------------------------------------------------------------------------
(* datetime.date: parsing of "YYYY-MM-DD" and isoformat() *)

DigitVal ==
    [c \in {"0", "1", "2", "3", "4", "5", "6", "7", "8", "9"} |->
        CASE c = "0" -> 0 [] c = "1" -> 1 [] c = "2" -> 2 [] c = "3" -> 3
          [] c = "4" -> 4 [] c = "5" -> 5 [] c = "6" -> 6 [] c = "7" -> 7
          [] c = "8" -> 8 [] c = "9" -> 9]

IsDigit(c) == c \in DOMAIN DigitVal

DigitChar(n) ==
    CASE n = 0 -> "0" [] n = 1 -> "1" [] n = 2 -> "2" [] n = 3 -> "3"
      [] n = 4 -> "4" [] n = 5 -> "5" [] n = 6 -> "6" [] n = 7 -> "7"
      [] n = 8 -> "8" [] n = 9 -> "9"

IsLeap(y) == (y % 4 = 0 /\ y % 100 # 0) \/ y % 400 = 0

DaysInMonth(y, m) ==
    IF m = 2 THEN (IF IsLeap(y) THEN 29 ELSE 28)
    ELSE IF m \in {4, 6, 9, 11} THEN 30 ELSE 31

\* The text has the shape dddd-dd-dd.
IsDateShape(cs) ==
    /\ Len(cs) = 10
    /\ cs[5] = "-" /\ cs[8] = "-"
    /\ \A i \in {1, 2, 3, 4, 6, 7, 9, 10} : IsDigit(cs[i])

ParseYear(cs) ==
    1000 * DigitVal[cs[1]] + 100 * DigitVal[cs[2]] + 10 * DigitVal[cs[3]] + DigitVal[cs[4]]
ParseMonth(cs) == 10 * DigitVal[cs[6]] + DigitVal[cs[7]]
ParseDay(cs) == 10 * DigitVal[cs[9]] + DigitVal[cs[10]]

IsValidDate(y, m, d) ==
    /\ y \in 1..9999 /\ m \in 1..12 /\ d \in 1..DaysInMonth(y, m)

IsDateText(cs) ==
    /\ IsDateShape(cs)
    /\ IsValidDate(ParseYear(cs), ParseMonth(cs), ParseDay(cs))

ParseDate(cs) == DateVal(ParseYear(cs), ParseMonth(cs), ParseDay(cs))

\* (a variant: the day written before the month)
IsoFormatDayFirst(y, m, d) ==
    << DigitChar(y \div 1000), DigitChar((y \div 100) % 10),
       DigitChar((y \div 10) % 10), DigitChar(y % 10), "-",
       DigitChar(d \div 10), DigitChar(d % 10), "-",
       DigitChar(m \div 10), DigitChar(m % 10) >>

\* datetime.date.isoformat(): zero-padded YYYY-MM-DD.
IsoFormat(y, m, d) ==
    << DigitChar(y \div 1000), DigitChar((y \div 100) % 10),
       DigitChar((y \div 10) % 10), DigitChar(y % 10), "-",
       DigitChar(m \div 10), DigitChar(m % 10), "-",
       DigitChar(d \div 10), DigitChar(d % 10) >>

-----------------------------------------------------------------------------
(* pdt.BaseModel validation *)

Ok(v) == [ok |-> TRUE, val |-> v, errors |-> <<>>]
Error(loc, type) == [loc |-> loc, type |-> type]
Fail(errs) == [ok |-> FALSE, val |-> Invalid, errors |-> errs]

\* Every outcome's errors, in order: validation does not stop at the first
\* field (or element) that fails.
\* (a variant: validation that stops at the first field that fails)
FirstErrorOnly(res) ==
    IF \E i \in 1..Len(res) : res[i].errors # <<>>
    THEN res[CHOOSE i \in 1..Len(res) :
                /\ res[i].errors # <<>>
                /\ \A j \in 1..(i - 1) : res[j].errors = <<>>].errors
    ELSE <<>>

RECURSIVE CollectFrom(_, _)
CollectFrom(res, i) ==
    IF i > Len(res) THEN <<>> ELSE res[i].errors \o CollectFrom(res, i + 1)

CollectErrors(res) == CollectFrom(res, 1)

\* (a variant: text fields declared with min_length=1)
ValidateStrNonEmpty(v, loc) ==
    IF v.kind # "str"
    THEN Fail(<<Error(loc, "string_type")>>)
    ELSE IF v.s = ""
         THEN Fail(<<Error(loc, "string_too_short")>>)
         ELSE Ok(Str(v.s))

ValidateStr(v, loc) ==
    IF v.kind = "str" THEN Ok(Str(v.s)) ELSE Fail(<<Error(loc, "string_type")>>)

\* (a variant: the Literal annotation taken for `str`)
ValidateLiteralAnyText(allowed, v, loc) ==
    IF v.kind = "str" THEN Ok(Str(v.s)) ELSE Fail(<<Error(loc, "string_type")>>)

ValidateLiteral(allowed, v, loc) ==
    IF v.kind = "str" /\ v.s \in allowed
    THEN Ok(Str(v.s))
    ELSE Fail(<<Error(loc, "literal_error")>>)

\* A date passes, a text is parsed, None and a list are no date.  (A number
\* would be read as a timestamp: the inputs explored hold none here.)
ValidateDate(v, loc) ==
    CASE v.kind = "date" -> Ok(v)
      [] v.kind = "str" ->
            IF IsDateText(v.items)
            THEN Ok(ParseDate(v.items))
            ELSE Fail(<<Error(loc, "date_from_datetime_parsing")>>)
      [] v.kind \in {"null", "list"} -> Fail(<<Error(loc, "date_type")>>)

RECURSIVE ValidateModel(_, _, _)

\* One element of a list field, at position i (counted from 0).
ValidateItem(item, e, loc) ==
    IF item = "str"
    THEN ValidateStr(e, loc)
    ELSE IF e.kind = "dict"
         THEN ValidateModel(item, e.m, loc)
         ELSE Fail(<<Error(loc, "model_type")>>)

\* (a variant: a list whose validation stops at its first invalid element)
ValidateListFailFast(item, v, loc) ==
    IF v.kind # "list"
    THEN Fail(<<Error(loc, "list_type")>>)
    ELSE LET res == [i \in 1..Len(v.items) |->
                        ValidateItem(item, v.items[i], loc \o <<i - 1>>)]
             errs == FirstErrorOnly(res)
         IN  IF errs = <<>>
             THEN Ok(List([i \in 1..Len(res) |-> res[i].val]))
             ELSE Fail(errs)

ValidateList(item, v, loc) ==
    IF v.kind # "list"
    THEN Fail(<<Error(loc, "list_type")>>)
    ELSE LET res == [i \in 1..Len(v.items) |->
                        ValidateItem(item, v.items[i], loc \o <<i - 1>>)]
             errs == CollectErrors(res)
         IN  IF errs = <<>>
             THEN Ok(List([i \in 1..Len(res) |-> res[i].val]))
             ELSE Fail(errs)

ValidateValue(ann, v, loc) ==
    IF ann.nullable /\ v.kind = "null"
    THEN Ok(Null)
    ELSE CASE ann.type = "str" -> ValidateStr(v, loc)
           [] ann.type = "date" -> ValidateDate(v, loc)
           [] ann.type = "literal" -> ValidateLiteral(ann.allowed, v, loc)
           [] ann.type = "list" -> ValidateList(ann.item, v, loc)

\* A field of the model: its key's value when the mapping has the key,
\* else its default, else a "missing" error.
ValidateField(model, f, m, loc) ==
    LET ann == Schema(model, f)
    IN  IF f \in DOMAIN m
        THEN ValidateValue(ann, m[f], loc \o <<f>>)
        ELSE IF ann.hasDefault
             THEN Ok(ann.default)
             ELSE Fail(<<Error(loc \o <<f>>, "missing")>>)

\* Position of each field in the declaration order.
FieldIndex ==
    [model \in Models |->
        [f \in FieldSet(model) |->
            CHOOSE i \in 1..Len(ModelFields(model)) : ModelFields(model)[i] = f]]

\* (a variant: a model validator that rejects a turbine representation on a
\* document whose representation level is the wind farm)
ValidateModelCrossField(model, m, loc) ==
    LET fs == ModelFields(model)
        res == [i \in 1..Len(fs) |-> ValidateField(model, fs[i], m, loc)]
        cross == IF /\ model = WindEnergySoftwareMetadataDocument
                    /\ "representation_level" \in DOMAIN m
                    /\ m["representation_level"] = Str("wind_farm")
                    /\ "turbine_representation" \in DOMAIN m
                    /\ m["turbine_representation"].kind # "null"
                 THEN <<Error(loc, "value_error")>>
                 ELSE <<>>
        errs == CollectErrors(res) \o cross
    IN  IF errs = <<>>
        THEN Ok([kind |-> model,
                 m |-> [f \in FieldSet(model) |-> res[FieldIndex[model][f]].val]])
        ELSE Fail(errs)

\* (a variant: model_config = ConfigDict(extra="forbid"))
ValidateModelForbidExtra(model, m, loc) ==
    LET fs == ModelFields(model)
        res == [i \in 1..Len(fs) |-> ValidateField(model, fs[i], m, loc)]
        extra == IF DOMAIN m \subseteq FieldSet(model)
                 THEN <<>>
                 ELSE <<Error(loc \o <<CHOOSE k \in DOMAIN m \ FieldSet(model) : TRUE>>,
                              "extra_forbidden")>>
        errs == CollectErrors(res) \o extra
    IN  IF errs = <<>>
        THEN Ok([kind |-> model,
                 m |-> [f \in FieldSet(model) |-> res[FieldIndex[model][f]].val]])
        ELSE Fail(errs)

\* Keys of the mapping that the model does not declare are not looked at.
ValidateModel(model, m, loc) ==
    LET fs == ModelFields(model)
        res == [i \in 1..Len(fs) |-> ValidateField(model, fs[i], m, loc)]
        errs == CollectErrors(res)
    IN  IF errs = <<>>
        THEN Ok([kind |-> model,
                 m |-> [f \in FieldSet(model) |-> res[FieldIndex[model][f]].val]])
        ELSE Fail(errs)

model_validate(m) == ValidateModel(WindEnergySoftwareMetadataDocument, m, <<>>)

-----------------------------------------------------------------------------
(* model_dump(): the record as a field-name-to-value mapping *)

DumpScalar(v, m) ==
    IF v.kind = "date" /\ m = "json"
    THEN Chars(IsoFormat(v.items[1], v.items[2], v.items[3]))
    ELSE v

\* A nested record becomes the mapping of its fields.
DumpItem(item, e, m) ==
    IF item = "str"
    THEN DumpScalar(e, m)
    ELSE Dict([f \in DOMAIN e.m |-> DumpScalar(e.m[f], m)])

DumpValue(ann, v, m) ==
    IF ann.type = "list" /\ v.kind = "list"
    THEN List([i \in 1..Len(v.items) |-> DumpItem(ann.item, v.items[i], m)])
    ELSE DumpScalar(v, m)

\* Every declared field is written, None included.
model_dump(d, m) ==
    [f \in DOMAIN d.m |->
        DumpValue(Schema(WindEnergySoftwareMetadataDocument, f), d.m[f], m)]

-----------------------------------------------------------------------------
(* The inputs explored *)

Fields == FieldSet(WindEnergySoftwareMetadataDocument)
ExtraKeys == {"homepage"}

ValidAuthor ==
    [name |-> Str("Ada"), orcid |-> Str("0000-0001"), affiliation |-> Str("DTU")]
ValidDistribution ==
    [distribution_platform |-> Str("pypi"), url |-> Str("https://pypi.org")]

Without(m, k) == [x \in DOMAIN m \ {k} |-> m[x]]
With(m, k, v) == [x \in DOMAIN m \cup {k} |-> IF x = k THEN v ELSE m[x]]

\* A complete, valid document.
ValidDoc ==
    [f \in Fields |->
        CASE f = "latest_release_date" ->
                Chars(<<"2", "0", "2", "4", "-", "0", "2", "-", "2", "9">>)
          [] f = "source_access_right" -> Str("open")
          [] f = "authors" -> List(<<Dict(ValidAuthor)>>)
          [] f = "programming_languages" -> List(<<Str("python")>>)
          [] f = "supported_platforms" -> List(<<>>)
          [] f = "resource_type" -> Str("software")
          [] f = "resource_subtype" -> Str("model")
          [] f = "distributions" -> List(<<>>)
          [] f = "time_domain" -> Str("steady")
          [] f = "representation_level" -> Str("turbine")
          [] f = "turbine_representation" -> Str("bem")
          [] f = "location" -> Null
          [] OTHER -> Str("floris")]

\* The mapping with no key at all.
EmptyDoc == [f \in {} |-> Null]

TextChoices == {Str(""), Null}

DateChoices ==
    { Chars(<<"1", "9", "9", "9", "-", "1", "2", "-", "3", "1">>),
      Chars(<<"2", "0", "2", "3", "-", "0", "2", "-", "2", "9">>),
      Chars(<<"2", "0", "2", "4", "-", "2", "-", "9">>),
      Null }

\* A token of the field in another letter case.
WrongCase(f) ==
    CASE f = "source_access_right" -> "Open"
      [] f = "resource_type" -> "Software"
      [] f = "resource_subtype" -> "Model"
      [] f = "time_domain" -> "STEADY"
      [] f = "representation_level" -> "Turbine"
      [] f = "turbine_representation" -> "BEM"
      [] f = "location" -> "Onshore"

LiteralChoices(f) ==
    {Str(t) : t \in Schema(WindEnergySoftwareMetadataDocument, f).allowed}
        \cup {Str(WrongCase(f)), Null, IntVal}

ListChoices == {List(<<>>), Null}

RawChoices(f) ==
    LET ann == Schema(WindEnergySoftwareMetadataDocument, f)
    IN  CASE ann.type = "str" -> TextChoices
          [] ann.type = "date" -> DateChoices
          [] ann.type = "literal" -> LiteralChoices(f)
          [] ann.type = "list" -> ListChoices

ItemChoices(item) ==
    CASE item = "str" -> {Str("python"), Null}
      [] item = Author ->
            { Dict(ValidAuthor),
              Dict(Without(ValidAuthor, "orcid")),
              Dict(With(ValidAuthor, "orcid", IntVal)),
              Dict(With(ValidAuthor, "name", Str(""))),
              Dict(With(ValidAuthor, "email", Str("ada@dtu.dk"))),
              NotADict("str") }
      [] item = Distribution ->
            { Dict(ValidDistribution),
              Dict(Without(ValidDistribution, "url")),
              Dict(With(ValidDistribution, "checksum", Str("abc"))),
              NotADict("null") }

\* Values a caller may assign to an attribute of the record.
AttrChoices == {Str("hardware")}

-----------------------------------------------------------------------------
(* The state machine: a caller validates an input, then the input with one *)
(* more change, ...; it may assign attributes of a record it got, dump the *)
(* record and validate the dump.                                           *)

NoResult == [ok |-> FALSE, val |-> Invalid, errors |-> <<>>]

\* The caller changes the keys of its input in key order: the declared
\* fields in declaration order, then the undeclared keys.
KeyPos(k) ==
    IF k \in Fields
    THEN FieldIndex[WindEnergySoftwareMetadataDocument][k]
    ELSE Len(ModelFields(WindEnergySoftwareMetadataDocument)) + 1

Init ==
    /\ raw = ValidDoc
    /\ edits = 0
    /\ cursor = 0
    /\ pc = "input"
    /\ result = NoResult
    /\ doc = Invalid
    /\ dumped = EmptyDoc
    /\ mode = "none"
    /\ result2 = NoResult

\* doc = WindEnergySoftwareMetadataDocument.model_validate(m)
Validated(m) ==
    /\ raw' = m
    /\ result' = model_validate(m)
    /\ doc' = result'.val
    /\ pc' = "validated"
    /\ UNCHANGED <<dumped, mode, result2>>

\* The first input.
Validate ==
    /\ pc = "input"
    /\ Validated(raw)
    /\ UNCHANGED <<edits, cursor>>

\* The caller may set or delete key k next: a key after the last one changed.
CanChange(k) ==
    /\ pc = "validated" /\ edits < MaxEdits
    /\ KeyPos(k) > cursor

\* The caller may append to key k next: a list, at or after the last key
\* changed.
CanAppend(k) ==
    /\ pc = "validated" /\ edits < MaxEdits
    /\ KeyPos(k) >= cursor
    /\ Schema(WindEnergySoftwareMetadataDocument, k).type = "list"
    /\ k \in DOMAIN raw /\ raw[k].kind = "list"

Changed(k) ==
    /\ edits' = edits + 1
    /\ cursor' = KeyPos(k)

\* raw.clear(), and validation of the changed input
Clear ==
    /\ pc = "validated" /\ edits < MaxEdits
    /\ cursor = 0
    /\ edits' = edits + 1
    /\ UNCHANGED cursor
    /\ Validated(EmptyDoc)

\* raw[k] = v, and validation of the changed input
SetField(k, v) ==
    /\ CanChange(k)
    /\ ~(k \in DOMAIN raw /\ raw[k] = v)
    /\ Changed(k)
    /\ Validated(With(raw, k, v))

\* del raw[k], and validation of the changed input
DelField(k) ==
    /\ CanChange(k)
    /\ k \in DOMAIN raw
    /\ Changed(k)
    /\ Validated(Without(raw, k))

\* raw[k].append(e), and validation of the changed input
AppendItem(k, e) ==
    /\ CanAppend(k)
    /\ Changed(k)
    /\ Validated(With(raw, k, List(Append(raw[k].items, e))))

\* doc.f = v: BaseModel.__setattr__ without frozen / validate_assignment
\* stores the value as it is.
SetAttr(f, v) ==
    /\ pc \in {"validated", "assigned"} /\ result.ok /\ edits < MaxEdits
    /\ doc' = [doc EXCEPT !.m[f] = v]
    /\ edits' = edits + 1
    /\ pc' = "assigned"
    /\ UNCHANGED <<raw, cursor, result, dumped, mode, result2>>

\* doc.model_dump(mode=m)
Dump(m) ==
    /\ pc \in {"validated", "assigned"} /\ result.ok
    /\ dumped' = model_dump(doc, m)
    /\ mode' = m
    /\ pc' = "dumped"
    /\ UNCHANGED <<raw, edits, cursor, result, doc, result2>>

\* WindEnergySoftwareMetadataDocument.model_validate(dumped)
Revalidate ==
    /\ pc = "dumped"
    /\ result2' = model_validate(dumped)
    /\ pc' = "revalidated"
    /\ UNCHANGED <<raw, edits, cursor, result, doc, dumped, mode>>

Next ==
    \/ Validate
    \/ \E k \in Fields : CanChange(k) /\ \E v \in RawChoices(k) : SetField(k, v)
    \/ \E k \in ExtraKeys : CanChange(k) /\ \E v \in TextChoices : SetField(k, v)
    \/ \E k \in Fields \cup ExtraKeys : DelField(k)
    \/ Clear
    \/ \E k \in Fields :
          /\ CanAppend(k)
          /\ \E e \in ItemChoices(Schema(WindEnergySoftwareMetadataDocument, k).item) :
                AppendItem(k, e)
    \/ \E f \in Fields : \E v \in AttrChoices : SetAttr(f, v)
    \/ \E m \in {"python", "json"} : Dump(m)
    \/ Revalidate

Spec == Init /\ [][Next]_vars

-----------------------------------------------------------------------------
(* Vocabulary of the properties *)

Doc == WindEnergySoftwareMetadataDocument

\* Validation has just returned: result is the outcome of validating raw.
Checked == pc = "validated"
Accepted == Checked /\ result.ok
Rejected == Checked /\ ~result.ok

\* The error kinds of the specification, for pydantic's error types.
ErrorKind(e) ==
    CASE e.type = "missing" -> "MissingFieldError"
      [] e.type = "literal_error" /\ e.loc = <<"resource_type">> ->
            "ConflictingConstantError"
      [] e.type = "literal_error" -> "InvalidEnumValueError"
      [] OTHER -> "TypeMismatchError"

\* The error list holds an error of this kind at exactly this path.
HasError(res, loc, kind) ==
    \E i \in 1..Len(res.errors) :
        res.errors[i].loc = loc /\ ErrorKind(res.errors[i]) = kind

\* The error list holds an error somewhere at or below this path.
HasErrorUnder(res, loc) ==
    \E i \in 1..Len(res.errors) :
        /\ Len(res.errors[i].loc) >= Len(loc)
        /\ SubSeq(res.errors[i].loc, 1, Len(loc)) = loc

Supplies(m, f) == f \in DOMAIN m
SuppliesNull(m, f) == f \in DOMAIN m /\ m[f].kind = "null"
SuppliesText(m, f) == f \in DOMAIN m /\ m[f].kind = "str"

\* The rule of one field, stated from its declaration alone: what a value
\* must be for the annotation to admit it.
ItemConforms(item, e) ==
    IF item = "str"
    THEN e.kind = "str"
    ELSE /\ e.kind = "dict"
         /\ \A g \in FieldSet(item) : g \in DOMAIN e.m /\ e.m[g].kind = "str"

Conforms(ann, v) ==
    \/ ann.nullable /\ v.kind = "null"
    \/ ann.type = "str" /\ v.kind = "str"
    \/ ann.type = "literal" /\ v.kind = "str" /\ v.s \in ann.allowed
    \/ ann.type = "date" /\ v.kind = "date"
    \/ ann.type = "date" /\ v.kind = "str" /\ IsDateText(v.items)
    \/ /\ ann.type = "list" /\ v.kind = "list"
       /\ \A i \in 1..Len(v.items) : ItemConforms(ann.item, v.items[i])

FieldConforms(m, f) ==
    IF f \in DOMAIN m
    THEN Conforms(Schema(Doc, f), m[f])
    ELSE Schema(Doc, f).hasDefault

EnumFields ==
    {"source_access_right", "resource_subtype", "time_domain",
     "representation_level", "turbine_representation", "location"}
OptionalFields == {"turbine_representation", "location"}
ModelListFields == {"authors", "distributions"}
TextFieldsOfClaim == {"id", "name", "description"}

-----------------------------------------------------------------------------
(* C1 *)

-----------------------------------------------------------------------------
(* C2 *)

\* C2: every successfully validated document has resource_type "software":
\* omitted in the input, the output carries "software"; supplied as
\* "software", it is accepted; supplied as anything else, validation fails
\* with a conflict error on resource_type.
C2_ResourceTypeIsSoftware ==
    Checked =>
        /\ result.ok => result.val.m["resource_type"] = Str("software")
        /\ ( \/ ~Supplies(raw, "resource_type")
             \/ (Supplies(raw, "resource_type") /\ raw["resource_type"] = Str("software")) )
           => ~HasErrorUnder(result, <<"resource_type">>)
        /\ (Supplies(raw, "resource_type") /\ raw["resource_type"] # Str("software"))
           => /\ ~result.ok
              /\ HasError(result, <<"resource_type">>, "ConflictingConstantError")

\* resource_type omitted, and the record carries "software".
C2_Witness ==
    /\ Accepted
    /\ ~Supplies(raw, "resource_type")
    /\ result.val.m["resource_type"] = Str("software")

-----------------------------------------------------------------------------
(* C3 *)

\* A value of an enum field that is not one of its tokens (None counts as
\* one for the two fields annotated `| None`).
NotAToken(f) ==
    /\ Supplies(raw, f)
    /\ ~(raw[f].kind = "str" /\ raw[f].s \in Schema(Doc, f).allowed)
    /\ ~(f \in OptionalFields /\ raw[f].kind = "null")

\* C3: for every enum-typed field, a value that is not exactly (case
\* included) one of the field's tokens makes validation fail with an
\* InvalidEnumValueError on that field, whatever the other fields hold.
C3_EnumMembership ==
    Checked =>
        \A f \in EnumFields :
            NotAToken(f) =>
                /\ ~result.ok
                /\ HasError(result, <<f>>, "InvalidEnumValueError")

\* time_domain in upper case next to another field that is invalid too.
C3_Witness ==
    /\ Rejected
    /\ Supplies(raw, "time_domain") /\ raw["time_domain"] = Str("STEADY")
    /\ ~Supplies(raw, "name")
    /\ HasError(result, <<"time_domain">>, "InvalidEnumValueError")

-----------------------------------------------------------------------------
(* C4 *)

\* C4: validation does not stop at the first error: the error list holds a
\* MissingFieldError for each required field missing from the input (and
\* none for a field that is present), together with the errors of every
\* other violation in the input.
C4_AllErrorsCollected ==
    Checked =>
        /\ \A f \in Fields \ {"resource_type"} :
                ~Supplies(raw, f) => HasError(result, <<f>>, "MissingFieldError")
        /\ \A f \in Fields :
                Supplies(raw, f) => ~HasError(result, <<f>>, "MissingFieldError")
        /\ \A f \in Fields :
                (Supplies(raw, f) /\ ~FieldConforms(raw, f))
                    => HasErrorUnder(result, <<f>>)

\* name and license both missing (and nothing else): two errors, one each.
C4_Witness ==
    /\ Rejected
    /\ ~Supplies(raw, "name") /\ ~Supplies(raw, "license")
    /\ HasError(result, <<"name">>, "MissingFieldError")
    /\ HasError(result, <<"license">>, "MissingFieldError")
    /\ Len(result.errors) = 2

-----------------------------------------------------------------------------
(* C5 *)

\* The validated field is the input field, converted to its type.
OutputMatches(f) ==
    LET ann == Schema(Doc, f)
        out == result.val.m[f]
    IN  IF ~Supplies(raw, f) THEN out = ann.default
        ELSE IF raw[f].kind = "null" THEN out = Null
        ELSE CASE ann.type \in {"str", "literal"} -> out = raw[f]
               [] ann.type = "date" ->
                    /\ out.kind = "date"
                    /\ raw[f].kind = "str" =>
                          IsoFormat(out.items[1], out.items[2], out.items[3])
                              = raw[f].items
               [] ann.type = "list" /\ ann.item = "str" -> out = raw[f]
               [] ann.type = "list" /\ ann.item # "str" ->
                    /\ out.kind = "list"
                    /\ Len(out.items) = Len(raw[f].items)
                    /\ \A i \in 1..Len(out.items) :
                          /\ out.items[i].kind = ann.item
                          /\ DOMAIN out.items[i].m = FieldSet(ann.item)
                          /\ \A g \in FieldSet(ann.item) :
                                out.items[i].m[g] = raw[f].items[i].m[g]

\* C5: validation succeeds if and only if every field on its own satisfies
\* its presence, type and enum rule (there is no rule across fields); an
\* input with any violation is rejected as a whole, no record being
\* returned; on success every output field is the converted input field,
\* authors and distributions in input order, empty sequences included.
C5_FieldwiseAcceptance ==
    Checked =>
        /\ result.ok <=> \A f \in Fields : FieldConforms(raw, f)
        /\ ~result.ok => result.val = Invalid /\ result.errors # <<>>
        /\ result.ok =>
              /\ result.errors = <<>>
              /\ result.val.kind = Doc
              /\ DOMAIN result.val.m = Fields
              /\ \A f \in Fields : OutputMatches(f)

\* A wind-farm level document with a turbine representation, offshore.
C5_Witness ==
    /\ Accepted
    /\ raw["representation_level"] = Str("wind_farm")
    /\ raw["turbine_representation"] = Str("bem")
    /\ raw["location"] = Str("offshore")
    /\ result.val.m["representation_level"] = Str("wind_farm")
    /\ result.val.m["turbine_representation"] = Str("bem")
    /\ result.val.m["latest_release_date"] = DateVal(2024, 2, 29)
    /\ result.val.m["supported_platforms"] = List(<<>>)

-----------------------------------------------------------------------------
(* C6 *)

\* C6: every element of authors and distributions is validated on its own:
\* each invalid element has its errors in the list, at a path made of the
\* sequence, the element's index and the offending field; an invalid element
\* hides neither the errors of later elements nor those of other fields.
C6_ElementsIndependent ==
    Checked =>
        \A f \in ModelListFields :
            (Supplies(raw, f) /\ raw[f].kind = "list") =>
                \A i \in 1..Len(raw[f].items) :
                    LET e == raw[f].items[i]
                        item == Schema(Doc, f).item
                    IN  /\ e.kind # "dict" =>
                              HasError(result, <<f, i - 1>>, "TypeMismatchError")
                        /\ e.kind = "dict" =>
                              \A g \in FieldSet(item) :
                                  /\ g \notin DOMAIN e.m =>
                                        HasError(result, <<f, i - 1, g>>,
                                                 "MissingFieldError")
                                  /\ (g \in DOMAIN e.m /\ e.m[g].kind # "str") =>
                                        HasError(result, <<f, i - 1, g>>,
                                                 "TypeMismatchError")
                                  /\ (g \in DOMAIN e.m /\ e.m[g].kind = "str") =>
                                        ~HasErrorUnder(result, <<f, i - 1, g>>)
                        /\ ItemConforms(item, e) =>
                              ~HasErrorUnder(result, <<f, i - 1>>)

\* Two invalid authors, at indices 1 and 2: both are reported.
C6_Witness ==
    /\ Rejected
    /\ Supplies(raw, "authors") /\ raw["authors"].kind = "list"
    /\ Len(raw["authors"].items) = 3
    /\ HasError(result, <<"authors", 1>>, "TypeMismatchError")
    /\ HasError(result, <<"authors", 2, "orcid">>, "MissingFieldError")

-----------------------------------------------------------------------------
(* C7 *)

\* C7: records are immutable once constructed: no operation on a record
\* built by validation changes a field value, so resource_type = "software"
\* and the enum memberships that held at construction hold ever after.
C7_RecordsImmutable ==
    (pc \in {"validated", "assigned", "dumped", "revalidated"} /\ result.ok) =>
        /\ doc = result.val
        /\ doc.m["resource_type"] = Str("software")
        /\ \A f \in EnumFields :
              \/ doc.m[f].kind = "str" /\ doc.m[f].s \in Schema(Doc, f).allowed
              \/ f \in OptionalFields /\ doc.m[f].kind = "null"

-----------------------------------------------------------------------------
(* C8 *)

\* The authors of the validated record.
AuthorsOut == result.val.m["authors"].items

\* C8 as stated: id, name and description of the document and name of an
\* author are non-empty text: no validated record holds "" in any of them.
C8_TextNonEmpty ==
    Accepted =>
        /\ \A f \in TextFieldsOfClaim : result.val.m[f].s # ""
        /\ \A i \in 1..Len(AuthorsOut) : AuthorsOut[i].m["name"].s # ""

\* C8 as the code has it: id, name and description of the document and name
\* of an author are text: a validated record holds in each of them the text
\* the input supplied, and every text, the empty one included, is accepted.
C8_TextAsSupplied ==
    Checked =>
        /\ result.ok =>
              /\ \A f \in TextFieldsOfClaim :
                    result.val.m[f].kind = "str" /\ result.val.m[f] = raw[f]
              /\ \A i \in 1..Len(AuthorsOut) :
                    /\ AuthorsOut[i].m["name"].kind = "str"
                    /\ AuthorsOut[i].m["name"] = raw["authors"].items[i].m["name"]
        /\ \A f \in TextFieldsOfClaim :
              SuppliesText(raw, f) => ~HasErrorUnder(result, <<f>>)
        /\ (Supplies(raw, "authors") /\ raw["authors"].kind = "list") =>
              \A i \in 1..Len(raw["authors"].items) :
                  LET e == raw["authors"].items[i]
                  IN  (e.kind = "dict" /\ SuppliesText(e.m, "name")) =>
                          ~HasErrorUnder(result, <<"authors", i - 1, "name">>)

\* A validated record whose id and whose second author's name are empty.
C8_Witness ==
    /\ Accepted
    /\ result.val.m["id"] = Str("")
    /\ Len(AuthorsOut) = 2
    /\ AuthorsOut[2].m["name"] = Str("")

-----------------------------------------------------------------------------
(* C9 *)

\* C9: round trip: for every record r built by validation (null optional
\* fields and a defaulted resource_type included), validating the mapping r
\* is serialized to succeeds and yields a record equal to r.
C9_RoundTrip ==
    (pc = "revalidated" /\ doc = result.val) =>
        /\ result2.ok
        /\ result2.val = doc

\* The text form of a record with both optional fields null, built from an
\* input without resource_type, validated again.
C9_Witness ==
    /\ pc = "revalidated" /\ doc = result.val /\ mode = "json"
    /\ ~Supplies(raw, "resource_type")
    /\ doc.m["turbine_representation"] = Null /\ doc.m["location"] = Null
    /\ dumped["resource_type"] = Str("software")
    /\ dumped["latest_release_date"].kind = "str"
    /\ result2.val = doc

-----------------------------------------------------------------------------
(* C10 *)

StripItem(item, e) ==
    IF e.kind = "dict"
    THEN Dict([g \in DOMAIN e.m \cap FieldSet(item) |-> e.m[g]])
    ELSE e

StripValue(ann, v) ==
    IF ann.type = "list" /\ ann.item # "str" /\ v.kind = "list"
    THEN List([i \in 1..Len(v.items) |-> StripItem(ann.item, v.items[i])])
    ELSE v

\* The mapping without the keys no model declares, at the top and inside
\* the elements of authors and distributions.
StripUnknown(m) ==
    [f \in DOMAIN m \cap Fields |-> StripValue(Schema(Doc, f), m[f])]

HasUnknown(m) ==
    \/ ~(DOMAIN m \subseteq Fields)
    \/ \E f \in ModelListFields :
          /\ Supplies(m, f) /\ m[f].kind = "list"
          /\ \E i \in 1..Len(m[f].items) :
                ~(DOMAIN m[f].items[i].m \subseteq FieldSet(Schema(Doc, f).item))

\* C10: keys the schema does not declare do not influence validation: an
\* input and the same input without such keys have the same outcome, the
\* same record (which carries none of those keys) or the same error list.
C10_UnknownKeysIgnored ==
    (Checked /\ HasUnknown(raw)) =>
        /\ result = model_validate(StripUnknown(raw))
        /\ result.ok =>
              /\ DOMAIN result.val.m = Fields
              /\ \A f \in ModelListFields :
                    \A i \in 1..Len(result.val.m[f].items) :
                        DOMAIN result.val.m[f].items[i].m
                            = FieldSet(Schema(Doc, f).item)

\* An accepted input with an undeclared key at the top and one in an author.
C10_Witness ==
    /\ Accepted
    /\ Supplies(raw, "homepage")
    /\ \E i \in 1..Len(raw["authors"].items) :
            "email" \in DOMAIN raw["authors"].items[i].m
    /\ DOMAIN result.val.m = Fields

=============================================================================
